---------------------------- MODULE Spec2Model ----------------------------
(***************************************************************************)
(* A model of src/basic/dispersionrun.py: the HYSPLIT CONTROL file codec   *)
(* (HycsControl with its helper classes ControlLoc, Species and ConcGrid). *)
(*                                                                         *)
(* Text.  A Python string is a sequence of tokens; the whitespace between  *)
(* tokens is abstracted to one separator, a line terminator is the token   *)
(* NL.  A token is [k, v, s]: k is the shape of its text, v its number,    *)
(* s its characters when it is a word.                                     *)
(*    "d"   a decimal integer, str(int)                  v = the integer   *)
(*    "z2"  a zero padded integer, %02d / {:02.0f}        v = the integer   *)
(*    "f0" "f1" "f2"  fixed point with 0, 1, 2 decimals   v = thousandths   *)
(*    "e2"  scientific with 2 decimals, {:.2E}            v = thousandths   *)
(*    "r"   str(float)                                    v = thousandths   *)
(*    "w"   any other word                                s = the word      *)
(*    "nl"  the line terminator                                             *)
(* Numbers held in memory are integers counting thousandths.               *)
(***************************************************************************)
EXTENDS Integers, Sequences, FiniteSets, TLC

VARIABLES
    \* ---- a program that uses one HycsControl at a time (Spec)
    control,        \* the HycsControl object
    defaultLevels,  \* the list that is the default of ConcGrid.__init__'s levels
    file,           \* the lines of the CONTROL file on disk
    src,            \* the object a complete default write() wrote file from
    last,           \* the last call: its name, options, input and exception
    adds,           \* records added by add_location/_metfile/_species/_cgrid
    \* ---- one ControlLoc, encoded and decoded again (SpecLoc)
    loc,        \* a ControlLoc built from keyword arguments
    locLine,    \* str(loc)
    locDec,     \* ControlLoc(line=locLine)
    locPc,      \* "new" | "str" | "decoded" ("off" outside SpecLoc)
    \* ---- one Species decoding an emission block (SpecSpecies)
    spBefore,        \* the Species before definition()
    spObj,         \* the Species
    spLines,    \* the three lines handed to definition()
    spRet,      \* what definition() returned
    spPc,       \* "new" | "done" ("off" outside SpecSpecies)
    \* ---- grids decoded one after another, as read() does (SpecGrid)
    cgObj,         \* the ConcGrid
    cgLines,    \* the ten lines handed to definition()
    cgRet,      \* what definition() returned or raised
    cgPc        \* "idle" | "new" | "done" ("off" outside SpecGrid)

ctlVars == <<control, defaultLevels, file, src, last, adds>>
locVars == <<loc, locLine, locDec, locPc>>
spVars == <<spBefore, spObj, spLines, spRet, spPc>>
cgVars == <<cgObj, cgLines, cgRet, cgPc>>

vars == <<control, defaultLevels, file, src, last, adds,
          loc, locLine, locDec, locPc, spBefore, spObj, spLines, spRet, spPc,
          cgObj, cgLines, cgRet, cgPc>>

-----------------------------------------------------------------------------
(* Bounds of the model.                                                    *)

\* records the program adds with add_location, add_metfile, add_species
\* and add_cgrid, over all its objects
MaxAdds == 2
\* the length a list of the object may reach by read and readlocs
MaxList == 2
\* the length the shared default level list may grow to
MaxLevels == 3
\* lines a truncated input file may lack
MaxTrunc == 2

-----------------------------------------------------------------------------
(* Tokens and the conversions of Python's str, format, int and float.      *)

Tok(k, v, s) == [k |-> k, v |-> v, s |-> s]
W(s) == Tok("w", 0, s)
NL == Tok("nl", 0, "")

Abs(x) == IF x < 0 THEN -x ELSE x

\* round v to a multiple of unit, ties to even (the rounding of format for
\* a tie that is an exact binary fraction)
RoundTo(v, unit) ==
    LET q == v \div unit
        r == v % unit
    IN  IF 2 * r < unit THEN q * unit
        ELSE IF 2 * r > unit THEN (q + 1) * unit
        ELSE IF q % 2 = 0 THEN q * unit ELSE (q + 1) * unit

RECURSIVE SigUnit(_, _)
\* the power of ten at which a keeps three significant digits
SigUnit(a, u) == IF a < 1000 * u THEN u ELSE SigUnit(a, 10 * u)

Fmt0f(v) == Tok("f0", RoundTo(v, 1000), "")       \* "{:.0f}"
Fmt1f(v) == Tok("f1", RoundTo(v, 100), "")        \* "{:.1f}", "%05.1f", ...
Fmt2f(v) == Tok("f2", RoundTo(v, 10), "")         \* "{:.2f}", "%0.2f"
Fmt2E(v) == Tok("e2", RoundTo(v, SigUnit(Abs(v), 1)), "")   \* "{:.2E}"
Fmt02(n) == Tok("z2", n, "")                      \* "{:02.0f}", n an int
StrInt(n) == Tok("d", n, "")                      \* str(n), n an int
StrNum(v) == Tok("r", v, "")                      \* str(x), x a float

IsFloatText(t) == t.k \in {"d", "z2", "f0", "f1", "f2", "e2", "r"}
IsIntText(t) == t.k \in {"d", "z2", "f0"}
FloatOf(t) == IF t.k \in {"d", "z2"} THEN t.v * 1000 ELSE t.v
IntOf(t) == IF t.k \in {"d", "z2"} THEN t.v ELSE t.v \div 1000

\* s.strip(), s.split(): the tokens without the line terminator
Strip(s) == SelectSeq(s, LAMBDA t : t.k # "nl")
Split(s) == Strip(s)

\* float(s) and int(s) of a whole string succeed on exactly one number
CanFloat(s) == Len(Strip(s)) = 1 /\ IsFloatText(Strip(s)[1])
CanInt(s) == Len(Strip(s)) = 1 /\ IsIntText(Strip(s)[1])
FloatLine(s) == FloatOf(Strip(s)[1])
IntLine(s) == IntOf(Strip(s)[1])

\* the first n tokens of s
Take(s, n) == SubSeq(s, 1, IF n < Len(s) THEN n ELSE Len(s))

-----------------------------------------------------------------------------
(* Optional numbers.  rate=False / area=False is [set |-> FALSE]; Python   *)
(* tests them with "if self.rate", which is false for False and for 0.     *)

Absent == [set |-> FALSE, v |-> 0]
Val(x) == [set |-> TRUE, v |-> x]
Truthy(m) == m.set /\ m.v # 0

-----------------------------------------------------------------------------
(* class ControlLoc                                                        *)

\* ControlLoc.__init__ with keyword arguments (line == -99)
ControlLocInit(latlon, alt, rate, area) ==
    [latlon |-> latlon, alt |-> alt, rate |-> rate, area |-> area]

\* the try/except of definition: float(temp[i]) or the fallback
FloatAt(temp, i, fallback) ==
    IF i <= Len(temp) /\ IsFloatText(temp[i]) THEN FloatOf(temp[i]) ELSE fallback

OptFloatAt(temp, i) ==
    IF i <= Len(temp) /\ IsFloatText(temp[i]) THEN Val(FloatOf(temp[i])) ELSE Absent

\* ControlLoc.definition(line), also ControlLoc.__init__(line=line)
LocDefinition(line) ==
    LET temp == Split(line)
    IN  [latlon |-> <<FloatAt(temp, 1, -1000), FloatAt(temp, 2, -1000)>>,
         alt    |-> FloatAt(temp, 3, 10000),
         rate   |-> OptFloatAt(temp, 4),
         area   |-> OptFloatAt(temp, 5)]

\* ControlLoc.__str__
StrRatePart(l) == IF Truthy(l.rate) THEN <<Fmt0f(l.rate.v)>> ELSE <<>>

StrAreaPart(l) == IF Truthy(l.area) THEN <<Fmt2E(l.area.v)>> ELSE <<>>

StrLoc(l) ==
    <<Fmt2f(l.latlon[1]), Fmt2f(l.latlon[2]), Fmt1f(l.alt)>>
        \o StrRatePart(l) \o StrAreaPart(l)

-----------------------------------------------------------------------------
(* Dates.  A datetime is [y, m, d, h, mi] with y the two digit year.       *)

Date(y, m, d, h, mi) == [y |-> y, m |-> m, d |-> d, h |-> h, mi |-> mi]

DaysIn(y, m) ==
    IF m \in {4, 6, 9, 11} THEN 30
    ELSE IF m = 2 THEN (IF y % 4 = 0 THEN 29 ELSE 28)
    ELSE 31

ValidDate(y, m, d, h, mi) ==
    /\ y \in 0..99 /\ m \in 1..12 /\ d >= 1 /\ d <= DaysIn(y, m)
    /\ h \in 0..23 /\ mi \in 0..59

AllInts(toks) == \A i \in 1..Len(toks) : IsIntText(toks[i])

\* An attribute whose Python type varies: a str, a number, a datetime, or
\* not set at all (reading it raises AttributeError)
NoDate == Date(0, 1, 1, 0, 0)
PyUnset == [ty |-> "unset", n |-> 0, s |-> <<>>, dt |-> NoDate]
PyStr(s) == [ty |-> "str", n |-> 0, s |-> s, dt |-> NoDate]
PyNum(n) == [ty |-> "num", n |-> n, s |-> <<>>, dt |-> NoDate]
PyDate(dt) == [ty |-> "datetime", n |-> 0, s |-> <<>>, dt |-> dt]

\* datetime.strptime(s, "%y %m %d %H %M") succeeds
CanStrptime5(s) ==
    LET t == Split(s)
    IN  /\ Len(t) = 5 /\ AllInts(t)
        /\ ValidDate(IntOf(t[1]), IntOf(t[2]), IntOf(t[3]), IntOf(t[4]), IntOf(t[5]))

Strptime5(s) ==
    LET t == Split(s)
    IN  Date(IntOf(t[1]), IntOf(t[2]), IntOf(t[3]), IntOf(t[4]), IntOf(t[5]))

\* s.strip()[0:2] == "00"
StartsWith00(s) ==
    Len(Strip(s)) >= 1 /\ Strip(s)[1].k = "z2" /\ Strip(s)[1].v = 0

Zero2 == Tok("z2", 0, "")
SentinelDate == <<Zero2, Zero2, Zero2, Zero2, Zero2>>     \* "00 00 00 00 00"

-----------------------------------------------------------------------------
(* class Species                                                           *)

\* '0.0 0.0 0.0 0.0 0.0', '0.0': the defaults of vel, decay, resuspension
DefaultVel == <<StrNum(0), StrNum(0), StrNum(0), StrNum(0), StrNum(0)>>
DefaultDecay == <<StrNum(0)>>
\* the wet deposition lines strdep falls back to (never parsed by this code)
DefaultWet == <<StrNum(0), W("4.0E+04"), W("5.0E-06")>>
NoWet == <<StrNum(0), StrNum(0), StrNum(0)>>

\* Species.__init__(name) with every other argument at its default
SpeciesInit(name) ==
    [name |-> name, rate |-> 1000, duration |-> -1000, psize |-> 99000,
     density |-> 2500, shape |-> 1000, date |-> PyStr(SentinelDate),
     wetdep |-> 1, wetdepstr |-> <<>>, vel |-> DefaultVel,
     decay |-> DefaultDecay, resuspension |-> DefaultDecay]

\* the date branch of Species.definition (lines 269-276)
DefinitionDate(line) ==
    IF StartsWith00(line) THEN PyStr(Strip(line))
    ELSE IF CanStrptime5(Strip(line)) THEN PyDate(Strptime5(Strip(line)))
    ELSE PyStr(Strip(line))

\* Species.definition(lines): [ret, sp], ret the returned boolean
SpeciesDefinition(sp, lines) ==
    IF ~CanFloat(lines[1]) THEN [ret |-> FALSE, sp |-> sp]
    ELSE IF ~CanFloat(lines[2])
    THEN [ret |-> FALSE, sp |-> [sp EXCEPT !.rate = FloatLine(lines[1])]]
    ELSE [ret |-> TRUE,
          sp |-> [sp EXCEPT !.rate = FloatLine(lines[1]),
                            !.duration = FloatLine(lines[2]),
                            !.date = DefinitionDate(lines[3])]]

\* Species.define_dep(lines): [exc, sp].  A warning prints temp[i], so a
\* first line with fewer than three tokens raises IndexError out of the
\* handler; the fields parsed before it keep their new values.
DefineDep(sp, lines) ==
    LET temp == Split(Strip(lines[1]))
        ok(i) == i <= Len(temp) /\ IsFloatText(temp[i])
        s1 == IF ok(1) THEN [sp EXCEPT !.psize = FloatOf(temp[1])] ELSE sp
        s2 == IF ok(2) THEN [s1 EXCEPT !.density = FloatOf(temp[2])] ELSE s1
        s3 == IF ok(3) THEN [s2 EXCEPT !.shape = FloatOf(temp[3])] ELSE s2
    IN  IF Len(temp) < 1 THEN [exc |-> "IndexError", sp |-> sp]
        ELSE IF Len(temp) < 2 THEN [exc |-> "IndexError", sp |-> s1]
        ELSE IF Len(temp) < 3 THEN [exc |-> "IndexError", sp |-> s2]
        ELSE [exc |-> "none",
              sp |-> [s3 EXCEPT !.vel = Strip(lines[2]),
                                !.wetdepstr = Strip(lines[3]),
                                !.wetdep = 1,
                                !.decay = Strip(lines[4]),
                                !.resuspension = Strip(lines[5])]]

\* an annotation comment: appended to the data of a line when annotating
Note(on, text) == IF on THEN <<W(text)>> ELSE <<>>

\* Species.strpollutant(annotate): [exc, lines]; self.date.strip() raises
\* AttributeError when the date is a datetime
StrPollutant(sp, annotate) ==
    IF sp.date.ty # "str" THEN [exc |-> "AttributeError", lines |-> <<>>]
    ELSE [exc |-> "none",
          lines |-> << sp.name \o Note(annotate, "#Species identifier") \o <<NL>>,
                       <<StrNum(sp.rate)>> \o Note(annotate, "#Rate of emission") \o <<NL>>,
                       <<Fmt2f(sp.duration)>> \o Note(annotate, "#Duration of emission") \o <<NL>>,
                       Strip(sp.date.s) \o Note(annotate, "#Start date of emission") \o <<NL>> >>]

\* the wet deposition line of strdep
StrWet(sp) ==
    IF sp.wetdep = 1
    THEN (IF sp.wetdepstr = <<>> THEN DefaultWet ELSE sp.wetdepstr)
    ELSE NoWet

\* Species.strdep(annotate): five lines
StrDep(sp, annotate) ==
    << <<Fmt1f(sp.psize), Fmt1f(sp.density), Fmt1f(sp.shape)>>
            \o Note(annotate, "#Particle diameter(um)   Density (g/cc),  Shape ") \o <<NL>>,
       sp.vel \o Note(annotate, "#Dry Deposition for gas or using resistance method ") \o <<NL>>,
       StrWet(sp) \o Note(annotate, "#Wet deposition parameters") \o <<NL>>,
       sp.decay \o Note(annotate, "#radioactive decay parameters") \o <<NL>>,
       sp.resuspension \o Note(annotate, "#resuspension from deposit") \o <<NL>> >>

-----------------------------------------------------------------------------
(* class ConcGrid.  levels is a reference to a list: [shared |-> TRUE] is  *)
(* the one list object that is the default value of __init__'s levels      *)
(* argument (its contents are passed around as dl), [shared |-> FALSE] a   *)
(* list of the caller's own.  nlev, sampletype and interval are ints.      *)

SharedLevels == [shared |-> TRUE, own |-> <<>>]
OwnLevels(l) == [shared |-> FALSE, own |-> l]
Levels(g, dl) == IF g.levels.shared THEN dl ELSE g.levels.own

\* ConcGrid.get_nlev, as __init__ calls it
GetNlev(nlev, levels) == IF nlev = -1 THEN Len(levels) ELSE nlev

\* ConcGrid.__init__(name, levels=..., sampletype=..., nlev=...), the other
\* arguments at their defaults
ConcGridInit(name, levels, nlev, sampletype, dl) ==
    [name |-> name, levels |-> levels,
     centerlat |-> 0, centerlon |-> 0, latdiff |-> 100, londiff |-> 100,
     latspan |-> 90000, lonspan |-> 360000,
     outdir |-> <<W("./")>>, outfile |-> <<W("cdump")>>,
     nlev |-> GetNlev(nlev, IF levels.shared THEN dl ELSE levels.own),
     sample_start |-> SentinelDate, sample_stop |-> SentinelDate,
     sampletype |-> sampletype, interval |-> <<1, 0>>, annotate |-> FALSE]

\* ConcGrid.set_annotate()
SetAnnotate(g) == [g EXCEPT !.annotate = TRUE]

\* ConcGrid.typestr: the words of the description, <<>> standing for None
TypeStr(g) ==
    LET tm == <<Fmt02(g.interval[1]), Fmt02(g.interval[2])>>
    IN  IF g.sampletype = 0 THEN <<W("Average over")>> \o tm \o <<W("with output every")>> \o tm
        ELSE IF g.sampletype = 1 THEN <<W("Snapshot every")>> \o tm
        ELSE IF g.sampletype = 2 THEN <<W("Maximum every")>> \o tm
        ELSE IF g.sampletype < 0
             THEN <<W("Average over"), StrInt(Abs(g.sampletype)), W("hours with output every")>> \o tm
        ELSE <<>>

\* the level line of __str__: every level, then the note
StrLevels(levels) == [i \in 1..Len(levels) |-> StrNum(levels[i])]

\* ConcGrid.__str__: [exc, lines]; '  # ' + None raises TypeError when an
\* annotated grid has a sample type typestr does not cover
GridStr(g, dl) ==
    LET a == g.annotate
    IN  IF a /\ TypeStr(g) = <<>> THEN [exc |-> "TypeError", lines |-> <<>>]
        ELSE [exc |-> "none", lines |-> <<
          <<StrNum(g.centerlat), StrNum(g.centerlon)>>
              \o Note(a, "#Concentration Grid Center (latitude longitude)") \o <<NL>>,
          <<StrNum(g.latdiff), StrNum(g.londiff)>>
              \o Note(a, "#Concentration grid spacing (degrees latitude longitude)") \o <<NL>>,
          <<Fmt2f(g.latspan), Fmt2f(g.lonspan)>>
              \o Note(a, "#Concentration grid span (degrees latitude longitude)") \o <<NL>>,
          g.outdir \o Note(a, "#Directory to write concentration output file") \o <<NL>>,
          Strip(g.outfile) \o Note(a, "#Filename for concentration output file") \o <<NL>>,
          <<StrInt(g.nlev)>>
              \o Note(a, "#Number of vertical levels for concentration grid") \o <<NL>>,
          StrLevels(Levels(g, dl))
              \o Note(a, "#List of vertical levels for concentration grid") \o <<NL>>,
          g.sample_start \o Note(a, "#Sampling start time of concentration grid") \o <<NL>>,
          g.sample_stop \o Note(a, "#Sampling stop time of concentration grid") \o <<NL>>,
          <<Fmt02(g.sampletype), Fmt02(g.interval[1]), Fmt02(g.interval[2])>>
              \o (IF a THEN <<W("#")>> \o TypeStr(g) ELSE <<>>) \o <<NL>> >>]

\* One "try: x = float(temp[0]) ... try: y = float(temp[1]) ..." pair of
\* ConcGrid.definition: how far it gets.  A warning prints the token, so a
\* missing token raises IndexError out of the handler.
\*   "none" nothing set, "first" the first field set, "both" both set
PairSet(temp) ==
    IF Len(temp) < 1 \/ ~IsFloatText(temp[1]) THEN "none"
    ELSE IF Len(temp) < 2 \/ ~IsFloatText(temp[2]) THEN "first"
    ELSE "both"

\* the outcome of a pair of which only the first field is tested
PairRetFirstOnly(temp) ==
    IF Len(temp) < 1 THEN "IndexError"
    ELSE IF ~IsFloatText(temp[1]) THEN "False"
    ELSE "run"

PairRet(temp) ==
    IF Len(temp) < 1 THEN "IndexError"
    ELSE IF ~IsFloatText(temp[1]) THEN "False"
    ELSE IF Len(temp) < 2 THEN "IndexError"
    ELSE IF ~IsFloatText(temp[2]) THEN "False"
    ELSE "run"

\* lines 203-210: every token of the level line, -1 for one that is no float
LevelsOf(line) ==
    LET temp == Split(line)
    IN  [i \in 1..Len(temp) |->
            IF IsFloatText(temp[i]) THEN FloatOf(temp[i]) ELSE -1000]

\* self.levels.append(lev), for every level of the line
AppendLevels(g, dl, new) ==
    [g  |-> IF g.levels.shared THEN g
            ELSE [g EXCEPT !.levels = OwnLevels(g.levels.own \o new)],
     dl |-> IF g.levels.shared THEN dl \o new ELSE dl]

\* lines 217-225 of ConcGrid.definition: the sample type and interval line
DefinitionSampling(g, line) ==
    LET temp == Split(Strip(line))
        g1 == IF Len(temp) >= 1 /\ IsIntText(temp[1])
              THEN [g EXCEPT !.sampletype = IntOf(temp[1])] ELSE g
        g2 == IF Len(temp) >= 3 /\ IsIntText(temp[2]) /\ IsIntText(temp[3])
              THEN [g1 EXCEPT !.interval = <<IntOf(temp[2]), IntOf(temp[3])>>] ELSE g1
    IN  IF Len(temp) < 1 THEN [ret |-> "IndexError", g |-> g]
        ELSE IF Len(temp) < 3 THEN [ret |-> "IndexError", g |-> g1]
        ELSE [ret |-> "True", g |-> g2]

\* ConcGrid.definition(lines): [ret, g, dl] with ret "True", "False" or the
\* exception it raises, g the grid and dl the shared default list after it
GridDefinition(g, lines, dl) ==
    LET t0 == Split(lines[1])
        t1 == Split(lines[2])
        t2 == Split(lines[3])
        g0 == IF PairSet(t0) = "none" THEN g
              ELSE IF PairSet(t0) = "first" THEN [g EXCEPT !.centerlat = FloatOf(t0[1])]
              ELSE [g EXCEPT !.centerlat = FloatOf(t0[1]), !.centerlon = FloatOf(t0[2])]
        g1 == IF PairSet(t1) = "none" THEN g0
              ELSE IF PairSet(t1) = "first" THEN [g0 EXCEPT !.latdiff = FloatOf(t1[1])]
              ELSE [g0 EXCEPT !.latdiff = FloatOf(t1[1]), !.londiff = FloatOf(t1[2])]
        g2 == IF PairSet(t2) = "none" THEN g1
              ELSE IF PairSet(t2) = "first" THEN [g1 EXCEPT !.latspan = FloatOf(t2[1])]
              ELSE [g1 EXCEPT !.latspan = FloatOf(t2[1]), !.lonspan = FloatOf(t2[2])]
        g4 == [g2 EXCEPT !.outdir = Strip(lines[4]), !.outfile = Strip(lines[5])]
        g5 == [g4 EXCEPT !.nlev = IF CanInt(lines[6]) THEN IntLine(lines[6]) ELSE 0]
        ap == AppendLevels(g5, dl, LevelsOf(lines[7]))
        g8 == [ap.g EXCEPT !.sample_start = Strip(lines[8]),
                           !.sample_stop = Strip(lines[9])]
        sm == DefinitionSampling(g8, lines[10])
    IN  IF PairRet(t0) # "run" THEN [ret |-> PairRet(t0), g |-> g0, dl |-> dl]
        ELSE IF PairRet(t1) # "run" THEN [ret |-> PairRet(t1), g |-> g1, dl |-> dl]
        ELSE IF PairRet(t2) # "run" THEN [ret |-> PairRet(t2), g |-> g2, dl |-> dl]
        ELSE IF ~CanInt(lines[6]) THEN [ret |-> "False", g |-> g5, dl |-> dl]
        ELSE [ret |-> sm.ret, g |-> sm.g, dl |-> ap.dl]

-----------------------------------------------------------------------------
(* class HycsControl                                                       *)

\* an element of self.locs: a ControlLoc (add_location) or a str (read,
\* readlocs)
NoLoc == ControlLocInit(<<0, 0>>, 0, Absent, Absent)
LocObj(l) == [ty |-> "loc", l |-> l, s |-> <<>>]
LocStr(s) == [ty |-> "str", l |-> NoLoc, s |-> s]
\* str(source)
StrSource(x) == IF x.ty = "loc" THEN StrLoc(x.l) ELSE x.s

\* HycsControl.__init__
NewControl ==
    [date |-> PyUnset, run_duration |-> PyUnset, vertical_motion |-> PyUnset,
     ztop |-> PyUnset,
     species |-> <<>>, concgrids |-> <<>>, locs |-> <<>>,
     metfiles |-> <<>>, metdirs |-> <<>>,
     nlocs |-> 0, num_grids |-> 0, num_sp |-> 0, num_met |-> 0]

\* the setters
AddSdate(c, sdate) == [c EXCEPT !.date = PyDate(sdate)]
AddSpecies(c, sp) ==
    [c EXCEPT !.num_sp = @ + 1, !.species = Append(@, sp)]
AddCgrid(c, cg) ==
    [c EXCEPT !.num_grids = @ + 1, !.concgrids = Append(@, cg)]
AddLocation(c, l) ==
    [c EXCEPT !.nlocs = @ + 1, !.locs = Append(@, LocObj(l))]
AddZtop(c, ztop) == [c EXCEPT !.ztop = PyNum(ztop)]
AddVmotion(c, vmotion) == [c EXCEPT !.vertical_motion = PyNum(vmotion)]
AddMetfile(c, metdir, metfile) ==
    [c EXCEPT !.num_met = @ + 1, !.metfiles = Append(@, metfile),
              !.metdirs = Append(@, metdir)]
AddDuration(c, duration) == [c EXCEPT !.run_duration = PyNum(duration)]

\* HycsControl.readlocs: every line of the file becomes a location
Readlocs(c, content) ==
    [c EXCEPT !.locs = @ \o [i \in 1..Len(content) |-> LocStr(Strip(content[i]))],
              !.nlocs = @ + Len(content)]

RECURSIVE Flatten(_)
Flatten(ss) == IF ss = <<>> THEN <<>> ELSE Head(ss) \o Flatten(Tail(ss))

\* the least index of seq at which Bad holds, Len(seq) + 1 when there is none
FirstBad(seq, Bad(_)) ==
    IF \E i \in 1..Len(seq) : Bad(seq[i])
    THEN CHOOSE i \in 1..Len(seq) : Bad(seq[i]) /\ \A j \in 1..(i - 1) : ~Bad(seq[j])
    ELSE Len(seq) + 1

\* int(x) truncates a number toward zero
Trunc(n) == IF n < 0 THEN -((-n) \div 1000) ELSE n \div 1000

\* str(int(self.run_duration)) can be evaluated
CanIntVal(x) == x.ty = "num" \/ (x.ty = "str" /\ CanInt(x.s))
StrIntVal(x) == IF x.ty = "num" THEN <<StrInt(Trunc(x.n))>> ELSE <<StrInt(IntLine(x.s))>>
\* str(self.vertical_motion), str(self.ztop)
StrVal(x) == IF x.ty = "num" THEN <<StrNum(x.n)>> ELSE x.s

\* lines 561-578: the start date, the location count and the locations
WriteHead(c, annotate, adderr) ==
    LET d == c.date.dt
    IN  << <<Fmt02(d.y), Fmt02(d.m), Fmt02(d.d), Fmt02(d.h)>>
               \o Note(annotate, "#Start date of simulation") \o <<NL>>,
           <<StrInt(IF adderr THEN c.nlocs + 1 ELSE c.nlocs)>>
               \o Note(annotate, "#Number of source locations") \o <<NL>> >>
        \o [i \in 1..Len(c.locs) |->
               StrSource(c.locs[i]) \o Note(annotate /\ i = 1, "#Lat Lon Altitude") \o <<NL>>]

\* lines 591-602: the met file count and the directory and file name pairs
WriteMet(c, annotate) ==
    << <<StrInt(c.num_met)>>
           \o Note(annotate, "#Number of Meteorological Data Files") \o <<NL>> >>
    \o Flatten([i \in 1..Len(c.metfiles) |->
          << c.metdirs[i] \o Note(annotate /\ i = 1, "#Meteorological Data Directory") \o <<NL>>,
             c.metfiles[i] \o Note(annotate /\ i = 1, "#Meteorological Data Filename") \o <<NL>> >>])

\* lines 604-612: the species count and the emission block of each species,
\* up to the first one whose strpollutant raises
WriteSpecies(c, annotate) ==
    LET k == FirstBad(c.species, LAMBDA sp : StrPollutant(sp, FALSE).exc # "none")
    IN  [exc   |-> IF k <= Len(c.species) THEN "AttributeError" ELSE "none",
         lines |-> << <<StrInt(c.num_sp)>>
                        \o Note(annotate, "#Number of Pollutant Species") \o <<NL>> >>
                   \o Flatten([i \in 1..(k - 1) |->
                         StrPollutant(c.species[i], annotate /\ i = 1).lines])]

\* one grid written with str(cg) taken before set_annotate()
WriteGridStrFirst(g, dl, annotate) ==
    [g |-> IF annotate THEN SetAnnotate(g) ELSE g, str |-> GridStr(g, dl)]

\* lines 615-617, one grid: set_annotate() when annotating, then str(cg)
WriteGrid(g, dl, annotate) ==
    LET g1 == IF annotate THEN SetAnnotate(g) ELSE g
    IN  [g |-> g1, str |-> GridStr(g1, dl)]

\* lines 613-617: the grid count and the ten lines of each grid, up to the
\* first grid whose str raises; grids are the grids after the loop
WriteGrids(c, dl, annotate) ==
    LET w == [i \in 1..Len(c.concgrids) |-> WriteGrid(c.concgrids[i], dl, annotate)]
        k == FirstBad(w, LAMBDA x : x.str.exc # "none")
    IN  [exc   |-> IF k <= Len(w) THEN "TypeError" ELSE "none",
         grids |-> [i \in 1..Len(w) |-> IF i <= k THEN w[i].g ELSE c.concgrids[i]],
         lines |-> <<  <<StrInt(c.num_grids), NL>> >>
                   \o Flatten([i \in 1..(k - 1) |-> w[i].str.lines])]

\* lines 619-627: the species count again and the deposition blocks
WriteDep(c, annotate) ==
    << <<StrInt(c.num_sp)>>
           \o Note(annotate, "#Number of Pollutant Species") \o <<NL>> >>
    \o Flatten([i \in 1..Len(c.species) |-> StrDep(c.species[i], annotate /\ i = 1)])

\* HycsControl.write(annotate, adderr): [c, out, exc], out the lines the file
\* holds afterwards (those written before an exception, when one is raised)
Write(c, dl, annotate, adderr) ==
    LET head == WriteHead(c, annotate, adderr)
        dur  == StrIntVal(c.run_duration) \o Note(annotate, "#Duration of run") \o <<NL>>
        vm   == StrVal(c.vertical_motion) \o Note(annotate, "#Vertical Motion") \o <<NL>>
        zt   == StrVal(c.ztop) \o Note(annotate, "#Top of Model Domain") \o <<NL>>
        sp   == WriteSpecies(c, annotate)
        gr   == WriteGrids(c, dl, annotate)
        cg   == [c EXCEPT !.concgrids = gr.grids]
    IN  IF c.date.ty # "datetime"
        THEN [c |-> c, out |-> <<>>, exc |-> "AttributeError"]
        ELSE IF c.run_duration.ty = "unset"
        THEN [c |-> c, out |-> head, exc |-> "AttributeError"]
        ELSE IF ~CanIntVal(c.run_duration)
        THEN [c |-> c, out |-> head, exc |-> "ValueError"]
        ELSE IF c.vertical_motion.ty = "unset"
        THEN [c |-> c, out |-> head \o <<dur>>, exc |-> "AttributeError"]
        ELSE IF c.ztop.ty = "unset"
        THEN [c |-> c, out |-> head \o <<dur, vm>>, exc |-> "AttributeError"]
        ELSE IF sp.exc # "none"
        THEN [c |-> c, exc |-> sp.exc,
              out |-> head \o <<dur, vm, zt>> \o WriteMet(c, annotate) \o sp.lines]
        ELSE IF gr.exc # "none"
        THEN [c |-> cg, exc |-> gr.exc,
              out |-> head \o <<dur, vm, zt>> \o WriteMet(c, annotate) \o sp.lines
                        \o gr.lines]
        ELSE [c |-> cg, exc |-> "none",
              out |-> head \o <<dur, vm, zt>> \o WriteMet(c, annotate) \o sp.lines
                        \o gr.lines \o WriteDep(c, annotate)]

-----------------------------------------------------------------------------
(* HycsControl.read.  content is the list of the file's lines; zz and ii   *)
(* are the code's 0-based indices, so content[ii] of the code is           *)
(* content[ii + 1] here.  A step works on r = [c, dl, zz, exc]: the        *)
(* object, the shared default level list, the cursor and the exception     *)
(* raised so far ("none" while the read is running).                       *)

Min(a, b) == IF a < b THEN a ELSE b
Max(a, b) == IF a > b THEN a ELSE b

\* datetime.strptime(s, "%y %M %d %H"): the second field is the minute; the
\* month is left at its default, January
CanStrptime4(s) ==
    LET t == Split(s)
    IN  /\ Len(t) = 4 /\ AllInts(t)
        /\ ValidDate(IntOf(t[1]), 1, IntOf(t[3]), IntOf(t[4]), IntOf(t[2]))

Strptime4(s) ==
    LET t == Split(s)
    IN  Date(IntOf(t[1]), 1, IntOf(t[3]), IntOf(t[4]), IntOf(t[2]))

\* int(content[zz]): the exception it raises, "none" when it is an integer
CountExc(content, zz) ==
    IF zz + 1 > Len(content) THEN "IndexError"
    ELSE IF ~CanInt(content[zz + 1]) THEN "ValueError"
    ELSE "none"

\* line 654
ReadDate(r, content) ==
    IF Len(content) < 1 THEN [r EXCEPT !.exc = "IndexError"]
    ELSE IF ~CanStrptime4(Strip(content[1])) THEN [r EXCEPT !.exc = "ValueError"]
    ELSE [r EXCEPT !.c.date = PyDate(Strptime4(Strip(content[1])))]

\* lines 655-660
ReadLocs(r, content) ==
    IF r.exc # "none" THEN r
    ELSE IF CountExc(content, 1) # "none" THEN [r EXCEPT !.exc = CountExc(content, 1)]
    ELSE LET n == IntLine(content[2])
             got == Max(0, Min(n, Len(content) - 2))
         IN  [r EXCEPT !.c.nlocs = n,
                       !.c.locs = @ \o [i \in 1..got |-> LocStr(Strip(content[2 + i]))],
                       !.zz = 2 + n,
                       !.exc = IF got < n THEN "IndexError" ELSE "none"]

\* lines 661-663
ReadScalars(r, content) ==
    LET zz == r.zz
        r1 == [r  EXCEPT !.c.run_duration = PyStr(Strip(content[zz + 1]))]
        r2 == [r1 EXCEPT !.c.vertical_motion = PyStr(Strip(content[zz + 2]))]
        r3 == [r2 EXCEPT !.c.ztop = PyStr(Strip(content[zz + 3]))]
    IN  IF r.exc # "none" THEN r
        ELSE IF zz + 1 > Len(content) THEN [r EXCEPT !.exc = "IndexError"]
        ELSE IF zz + 2 > Len(content) THEN [r1 EXCEPT !.exc = "IndexError"]
        ELSE IF zz + 3 > Len(content) THEN [r2 EXCEPT !.exc = "IndexError"]
        ELSE r3

\* lines 664-669
ReadMet(r, content) ==
    IF r.exc # "none" THEN r
    ELSE IF CountExc(content, r.zz + 3) # "none"
    THEN [r EXCEPT !.exc = CountExc(content, r.zz + 3)]
    ELSE LET n == IntLine(content[r.zz + 4])
             zz == r.zz + 4
             left == Max(0, Len(content) - zz)
             dirs == Min(n, (left + 1) \div 2)
             files == Min(n, left \div 2)
         IN  [r EXCEPT !.c.num_met = n,
                       !.c.metdirs = @ \o [i \in 1..dirs |-> Strip(content[zz + 2 * i - 1])],
                       !.c.metfiles = @ \o [i \in 1..files |-> Strip(content[zz + 2 * i])],
                       !.zz = zz + 2 * n,
                       !.exc = IF files < n THEN "IndexError" ELSE "none"]

RECURSIVE ReadSpeciesLoop(_, _, _, _)
\* lines 673-681, from the block at ii on, left blocks to go
ReadSpeciesLoop(r, content, ii, left) ==
    IF left = 0 THEN r
    ELSE IF ii + 4 > Len(content) THEN [r EXCEPT !.exc = "IndexError"]
    ELSE LET sptemp == SpeciesInit(Strip(content[ii + 1]))
             d == SpeciesDefinition(sptemp,
                      <<content[ii + 2], content[ii + 3], content[ii + 4]>>)
             r1 == IF d.ret THEN [r EXCEPT !.c.species = Append(@, d.sp)] ELSE r
         IN  ReadSpeciesLoop(r1, content, ii + 4, left - 1)

\* lines 670-682
ReadSpecies(r, content) ==
    IF r.exc # "none" THEN r
    ELSE IF CountExc(content, r.zz) # "none"
    THEN [r EXCEPT !.exc = CountExc(content, r.zz)]
    ELSE LET n == IntLine(content[r.zz + 1])
             r1 == ReadSpeciesLoop([r EXCEPT !.c.num_sp = n], content, r.zz + 1, n)
         IN  [r1 EXCEPT !.zz = r.zz + 1 + 4 * n]

RECURSIVE ReadGridLoop(_, _, _, _)
\* lines 685-692, from the block at ii on: the "name" is content[ii], the
\* ten lines of the block are content[ii+1] .. content[ii+10]
ReadGridLoop(r, content, ii, left) ==
    IF left = 0 THEN r
    ELSE IF ii + 11 > Len(content) THEN [r EXCEPT !.exc = "IndexError"]
    ELSE LET sptemp == ConcGridInit(Strip(content[ii + 1]), SharedLevels, -1, 0, r.dl)
             d == GridDefinition(sptemp, SubSeq(content, ii + 2, ii + 11), r.dl)
         IN  IF d.ret = "True"
             THEN ReadGridLoop([r EXCEPT !.c.concgrids = Append(@, d.g), !.dl = d.dl],
                               content, ii + 10, left - 1)
             ELSE IF d.ret = "False"
             THEN ReadGridLoop([r EXCEPT !.dl = d.dl], content, ii + 10, left - 1)
             ELSE [r EXCEPT !.dl = d.dl, !.exc = d.ret]

\* the grid step with the cursor advanced by eleven lines for a grid
ReadGridsElevenLines(r, content) ==
    IF r.exc # "none" THEN r
    ELSE IF CountExc(content, r.zz) # "none"
    THEN [r EXCEPT !.exc = CountExc(content, r.zz)]
    ELSE LET n == IntLine(content[r.zz + 1])
             r1 == ReadGridLoop([r EXCEPT !.c.num_grids = n, !.c.concgrids = <<>>],
                                content, r.zz, n)
         IN  [r1 EXCEPT !.zz = r.zz + 11 * n + 1]

\* lines 683-694
ReadGrids(r, content) ==
    IF r.exc # "none" THEN r
    ELSE IF CountExc(content, r.zz) # "none"
    THEN [r EXCEPT !.exc = CountExc(content, r.zz)]
    ELSE LET n == IntLine(content[r.zz + 1])
             r1 == ReadGridLoop([r EXCEPT !.c.num_grids = n, !.c.concgrids = <<>>],
                                content, r.zz, n)
         IN  [r1 EXCEPT !.zz = r.zz + 10 * n + 1]

RECURSIVE ReadDepLoop(_, _, _, _, _)
\* lines 699-704, from the block at ii on, for the species at index nn
ReadDepLoop(r, content, ii, nn, left) ==
    IF left = 0 THEN r
    ELSE IF ii + 6 > Len(content) THEN [r EXCEPT !.exc = "IndexError"]
    ELSE IF nn + 1 > Len(r.c.species) THEN [r EXCEPT !.exc = "IndexError"]
    ELSE LET d == DefineDep(r.c.species[nn + 1], SubSeq(content, ii + 2, ii + 6))
             r1 == [r EXCEPT !.c.species[nn + 1] = d.sp, !.exc = d.exc]
         IN  IF d.exc # "none" THEN r1
             ELSE ReadDepLoop(r1, content, ii + 5, nn + 1, left - 1)

\* lines 695-704: the deposition count is read and compared, the loop runs
\* num_sp times
ReadDep(r, content) ==
    IF r.exc # "none" THEN r
    ELSE IF CountExc(content, r.zz) # "none"
    THEN [r EXCEPT !.exc = CountExc(content, r.zz)]
    ELSE ReadDepLoop(r, content, r.zz, 0, r.c.num_sp)

\* HycsControl.read: [c, dl, zz, exc]
Read(c, dl, content) ==
    ReadDep(ReadGrids(ReadSpecies(ReadMet(ReadScalars(ReadLocs(
        ReadDate([c |-> c, dl |-> dl, zz |-> 0, exc |-> "none"], content),
        content), content), content), content), content), content)

-----------------------------------------------------------------------------
(* The program around HycsControl: the values it passes and the files it   *)
(* reads.                                                                  *)

StartDates == {Date(15, 6, 15, 12, 0)}

LocArgs ==
    {ControlLocInit(<<40125, -105270>>, 10000, Absent, Absent),
     ControlLocInit(<<40125, -105270>>, 10000, Val(250400), Val(12345678))}

RealDate == <<StrInt(15), Fmt02(6), StrInt(15), StrInt(12), Fmt02(0)>>   \* "15 06 15 12 00"

SpeciesArgs ==
    {SpeciesInit(<<W("P001")>>),
     [SpeciesInit(<<W("P002")>>) EXCEPT !.date = PyStr(RealDate), !.duration = 2500]}

GridArgs(dl) ==
    {ConcGridInit(<<W("G1")>>, SharedLevels, -1, 0, dl),
     ConcGridInit(<<W("G2")>>, OwnLevels(<<100000, 500000>>), -1, 3, dl)}

\* the input of a read: the file as it is, or a file that write() wrote
\* from well-formed values with one defect
AsIs == [kind |-> "asis", i |-> 0]
Junk(f, i) == [f EXCEPT ![i][1] = W("junk")]         \* the first token of line i
DropTail(f, k) == Take(f, Len(f) - k)                \* the last k lines missing
\* the deposition section with count d and d blocks, of a file whose
\* deposition section starts at line p
PartialDep(f, p, d) ==
    Take(f, p - 1) \o << <<StrInt(d), NL>> >> \o SubSeq(f, p + 1, p + 5 * d)

\* the line numbers (from 1) of the sections of the file write() makes of x
LocCountLine == 2
MetCountLine(x) == 2 + Len(x.locs) + 4
SpCountLine(x) == MetCountLine(x) + 2 * Len(x.metfiles) + 1
GridCountLine(x) == SpCountLine(x) + 4 * Len(x.species) + 1
DepCountLine(x) == GridCountLine(x) + 10 * Len(x.concgrids) + 1
CountLines(x) ==
    {LocCountLine, MetCountLine(x), SpCountLine(x), GridCountLine(x), DepCountLine(x)}

Inputs ==
    {AsIs} \cup
    (IF src.ok
     THEN {[kind |-> "junk", i |-> i] : i \in {n \in 1..Len(file) : Len(file[n]) >= 2}}
          \cup {[kind |-> "trunc", i |-> k] : k \in 1..Min(MaxTrunc, Len(file))}
          \cup {[kind |-> "partialdep", i |-> d] : d \in 0..(Len(src.c.species) - 1)}
     ELSE {})

Content(v) ==
    IF v.kind = "junk" THEN Junk(file, v.i)
    ELSE IF v.kind = "trunc" THEN DropTail(file, v.i)
    ELSE IF v.kind = "partialdep" THEN PartialDep(file, DepCountLine(src.c), v.i)
    ELSE file

\* an object as add_* calls build it: typed scalars, ControlLoc locations,
\* species whose date is a str, the counters equal to the list lengths
WellFormed(x) ==
    /\ x.date.ty = "datetime" /\ x.run_duration.ty = "num"
    /\ x.vertical_motion.ty = "num" /\ x.ztop.ty = "num"
    /\ \A i \in 1..Len(x.locs) : x.locs[i].ty = "loc"
    /\ \A i \in 1..Len(x.species) : x.species[i].date.ty = "str"
    /\ x.nlocs = Len(x.locs) /\ x.num_met = Len(x.metfiles)
    /\ x.num_sp = Len(x.species) /\ x.num_grids = Len(x.concgrids)

NoSrc == [ok |-> FALSE, c |-> NewControl, dl |-> <<>>]

Call(op) ==
    [op |-> op, annotate |-> FALSE, adderr |-> FALSE, exc |-> "none",
     input |-> AsIs, fresh |-> FALSE, repeat |-> FALSE, zz |-> 0]

\* the program drops an object whose read() raised
Failed == last.op = "read" /\ last.exc # "none"
\* ... and decodes a defective file only to look at the result
Usable == ~Failed /\ ~(last.op = "read" /\ last.input.kind # "asis")

ScalarsSet(x) ==
    /\ x.date.ty # "unset" /\ x.run_duration.ty # "unset"
    /\ x.vertical_motion.ty # "unset" /\ x.ztop.ty # "unset"

-----------------------------------------------------------------------------
(* The actions of Spec: one per method of HycsControl.                     *)

\* the state of a part of the model that a specification leaves out
NoControl ==
    /\ control = NewControl /\ file = <<>> /\ src = NoSrc
    /\ last = Call("other") /\ adds = 0
NoLocTest == loc = NoLoc /\ locLine = <<>> /\ locDec = NoLoc /\ locPc = "off"
NoSpTest ==
    /\ spBefore = SpeciesInit(<<>>) /\ spObj = SpeciesInit(<<>>) /\ spLines = <<>>
    /\ spRet = FALSE /\ spPc = "off"
NoCgTest ==
    /\ cgObj = ConcGridInit(<<>>, SharedLevels, -1, 0, <<>>) /\ cgLines = <<>>
    /\ cgRet = "none" /\ cgPc = "off"

\* levels=[50], evaluated once when the class is defined (line 37)
InitialLevels == <<50000>>

Init ==
    /\ control = NewControl
    /\ defaultLevels = InitialLevels
    /\ file = <<>>
    /\ src = NoSrc
    /\ last = Call("other")
    /\ adds = 0
    /\ NoLocTest /\ NoSpTest /\ NoCgTest

Other ==
    /\ last' = Call("other")
    /\ UNCHANGED <<defaultLevels, file, src, locVars, spVars, cgVars>>

\* HycsControl()
New ==
    /\ control' = NewControl
    /\ Other
    /\ UNCHANGED adds

\* the program sets the four scalar fields first, in the order of the file
add_sdate ==
    /\ Usable /\ control.date.ty = "unset"
    /\ \E sdate \in StartDates : control' = AddSdate(control, sdate)
    /\ Other /\ UNCHANGED adds

add_duration ==
    /\ Usable /\ control.date.ty # "unset" /\ control.run_duration.ty = "unset"
    /\ control' = AddDuration(control, 24000)
    /\ Other /\ UNCHANGED adds

add_vmotion ==
    /\ Usable /\ control.run_duration.ty # "unset" /\ control.vertical_motion.ty = "unset"
    /\ control' = AddVmotion(control, 0)
    /\ Other /\ UNCHANGED adds

add_ztop ==
    /\ Usable /\ control.vertical_motion.ty # "unset" /\ control.ztop.ty = "unset"
    /\ control' = AddZtop(control, 10000000)
    /\ Other /\ UNCHANGED adds

add_location ==
    /\ Usable /\ ScalarsSet(control) /\ adds < MaxAdds
    /\ \E l \in LocArgs : control' = AddLocation(control, l)
    /\ Other /\ adds' = adds + 1

add_metfile ==
    /\ Usable /\ ScalarsSet(control) /\ adds < MaxAdds
    /\ control' = AddMetfile(control, <<W("/met/")>>, <<W("gdas1")>>)
    /\ Other /\ adds' = adds + 1

add_species ==
    /\ Usable /\ ScalarsSet(control) /\ adds < MaxAdds
    /\ \E sp \in SpeciesArgs : control' = AddSpecies(control, sp)
    /\ Other /\ adds' = adds + 1

add_cgrid ==
    /\ Usable /\ ScalarsSet(control) /\ adds < MaxAdds
    /\ \E cg \in GridArgs(defaultLevels) : control' = AddCgrid(control, cg)
    /\ Other /\ adds' = adds + 1

readlocs ==
    /\ Usable
    /\ file # <<>> /\ Len(control.locs) + Len(file) <= MaxList
    /\ control' = Readlocs(control, file)
    /\ Other /\ UNCHANGED adds

write ==
    /\ Usable
    /\ \E annotate \in BOOLEAN, adderr \in BOOLEAN :
          LET w == Write(control, defaultLevels, annotate, adderr)
              rep == last.op = "write" /\ last.annotate = annotate
                        /\ last.adderr = adderr
          IN  /\ control' = w.c
              /\ file' = w.out
              /\ src' = IF w.exc = "none" /\ ~annotate /\ ~adderr /\ WellFormed(control)
                        THEN [ok |-> TRUE, c |-> control, dl |-> defaultLevels]
                        ELSE NoSrc
              /\ last' = [Call("write") EXCEPT !.annotate = annotate,
                             !.adderr = adderr, !.exc = w.exc, !.repeat = rep]
    /\ UNCHANGED <<defaultLevels, adds, locVars, spVars, cgVars>>

\* the lists of x are within the bound
Within(x) ==
    /\ Len(x.locs) <= MaxList /\ Len(x.metdirs) <= MaxList
    /\ Len(x.species) <= MaxList

\* the program reads files that write() made from well-formed values, as
\* they are or with one defect
read ==
    /\ Usable /\ src.ok
    /\ \E v \in Inputs :
          LET r == Read(control, defaultLevels, Content(v))
          IN  /\ Len(r.dl) <= MaxLevels /\ Within(r.c)
              /\ control' = r.c
              /\ defaultLevels' = r.dl
              /\ last' = [Call("read") EXCEPT !.exc = r.exc, !.input = v,
                             !.fresh = (control = NewControl), !.zz = r.zz]
    /\ UNCHANGED <<file, src, adds, locVars, spVars, cgVars>>

Next ==
    \/ New
    \/ add_sdate \/ add_duration \/ add_vmotion \/ add_ztop
    \/ add_location \/ add_metfile \/ add_species \/ add_cgrid
    \/ readlocs \/ write \/ read

Spec == Init /\ [][Next]_vars

-----------------------------------------------------------------------------
(* SpecLoc: a ControlLoc is built from keyword arguments, encoded with     *)
(* __str__ and the line decoded with ControlLoc(line=...).                 *)

RateArgs == {Absent, Val(0), Val(400), Val(250400)}
AreaArgs == {Absent, Val(0), Val(12345678)}

LocInputs ==
    {ControlLocInit(<<lat, -105270>>, alt, rate, area) :
        lat \in {40125, -1000}, alt \in {10000, 1250},
        rate \in RateArgs, area \in AreaArgs}

InitLoc ==
    /\ NoControl /\ defaultLevels = InitialLevels /\ NoSpTest /\ NoCgTest
    /\ loc \in LocInputs
    /\ locLine = <<>> /\ locDec = NoLoc /\ locPc = "new"

loc_str ==
    /\ locPc = "new"
    /\ locLine' = StrLoc(loc)
    /\ locPc' = "str"
    /\ UNCHANGED <<ctlVars, loc, locDec, spVars, cgVars>>

loc_definition ==
    /\ locPc = "str"
    /\ locDec' = LocDefinition(locLine)
    /\ locPc' = "decoded"
    /\ UNCHANGED <<ctlVars, loc, locLine, spVars, cgVars>>

NextLoc == loc_str \/ loc_definition

SpecLoc == InitLoc /\ [][NextLoc]_vars

-----------------------------------------------------------------------------
(* SpecSpecies: Species.definition on the three lines of an emission       *)
(* block, as read() calls it on a new Species or a caller on its own.      *)

RateLines == { <<StrNum(1000), NL>>, <<StrInt(250), NL>>, <<W("rate"), NL>> }
DurationLines == { <<Fmt2f(-1000), NL>>, <<Fmt2f(2500), NL>>, <<W("hours"), NL>> }
DateLines ==
    { SentinelDate \o <<NL>>,                                          \* 00 00 00 00 00
      <<Zero2, Fmt02(6), StrInt(15), StrInt(12), Zero2, NL>>,          \* 00 06 15 12 00
      RealDate \o <<NL>>,                                              \* 15 06 15 12 00
      <<StrInt(15), StrInt(13), StrInt(15), StrInt(12), Zero2, NL>>,   \* 15 13 15 12 00
      <<StrInt(15), Fmt02(6), StrInt(15), StrInt(12), NL>>,            \* 15 06 15 12
      <<W("today"), NL>>,
      <<NL>> }

InitSpecies ==
    /\ NoControl /\ defaultLevels = InitialLevels /\ NoLocTest /\ NoCgTest
    /\ spBefore \in SpeciesArgs
    /\ spObj = spBefore
    /\ spLines \in {<<a, b, d>> : a \in RateLines, b \in DurationLines, d \in DateLines}
    /\ spRet = FALSE /\ spPc = "new"

species_definition ==
    /\ spPc = "new"
    /\ LET d == SpeciesDefinition(spObj, spLines)
       IN  spObj' = d.sp /\ spRet' = d.ret
    /\ spPc' = "done"
    /\ UNCHANGED <<ctlVars, locVars, spBefore, spLines, cgVars>>

NextSpecies == species_definition

SpecSpecies == InitSpecies /\ [][NextSpecies]_vars

-----------------------------------------------------------------------------
(* SpecGrid: grids are decoded one after another in one process, each a    *)
(* ConcGrid(name) with the default arguments handed the ten lines of a     *)
(* block, as the loop of read() does.                                      *)

\* the block __str__ writes for a grid, with level count n and the level
\* line cut to its first k levels
BaseBlock(n, k) ==
    LET g == ConcGridInit(<<W("G")>>, OwnLevels(<<100000, 500000>>), -1, 0, <<>>)
        b == GridStr(g, <<>>).lines
    IN  [b EXCEPT ![6] = <<StrInt(n), NL>>,
                  ![7] = Take(StrLevels(<<100000, 500000>>), k) \o <<NL>>]

\* the numeric tokens of a block: <<line, token>>
NumericAt ==
    {<<1, 1>>, <<1, 2>>, <<2, 1>>, <<2, 2>>, <<3, 1>>, <<3, 2>>, <<6, 1>>,
     <<7, 1>>, <<10, 1>>, <<10, 2>>, <<10, 3>>}

\* block b with the token at p replaced by a word (p = <<0, 0>>: as it is)
JunkAt(b, p) ==
    IF p[1] = 0 \/ p[2] >= Len(b[p[1]]) THEN b
    ELSE [b EXCEPT ![p[1]][p[2]] = W("junk")]

GridBlocks ==
    {JunkAt(BaseBlock(n, k), p) :
        n \in 1..3, k \in 0..2, p \in NumericAt \cup {<<0, 0>>}}

InitGrid ==
    /\ NoControl /\ defaultLevels = InitialLevels /\ NoLocTest /\ NoSpTest
    /\ cgObj = ConcGridInit(<<>>, SharedLevels, -1, 0, <<>>) /\ cgLines = <<>>
    /\ cgRet = "none" /\ cgPc = "idle"

\* sptemp = ConcGrid(spname)
grid_new ==
    /\ cgPc \in {"idle", "done"}
    /\ cgObj' = ConcGridInit(<<W("G")>>, SharedLevels, -1, 0, defaultLevels)
    /\ cgLines' = <<>> /\ cgRet' = "none" /\ cgPc' = "new"
    /\ UNCHANGED <<control, defaultLevels, file, src, last, adds, locVars, spVars>>

\* sptemp.definition(lines)
grid_definition ==
    /\ cgPc = "new"
    /\ \E b \in GridBlocks :
          LET d == GridDefinition(cgObj, b, defaultLevels)
          IN  /\ Len(d.dl) <= MaxLevels
              /\ cgObj' = d.g /\ defaultLevels' = d.dl /\ cgRet' = d.ret
              /\ cgLines' = b
    /\ cgPc' = "done"
    /\ UNCHANGED <<control, file, src, last, adds, locVars, spVars>>

NextGrid == grid_new \/ grid_definition

SpecGrid == InitGrid /\ [][NextGrid]_vars

-----------------------------------------------------------------------------
(* The claims.                                                             *)

\* the count written on line p of the file
CountOn(p) == IntOf(file[p][1])

\* a decoded location line d stands for the ControlLoc o: every field to
\* the precision of its format, rate and area present exactly as in o
SameLoc(o, d) ==
    LET x == LocDefinition(d)
    IN  /\ x.latlon = <<RoundTo(o.latlon[1], 10), RoundTo(o.latlon[2], 10)>>
        /\ x.alt = RoundTo(o.alt, 100)
        /\ x.rate.set = o.rate.set /\ x.area.set = o.area.set
        /\ (o.rate.set => x.rate.v = RoundTo(o.rate.v, 1000))
        /\ (o.area.set => x.area.v = Fmt2E(o.area.v).v)

\* a decoded species d has the field values of the species o
SameSpecies(o, d) ==
    /\ d.name = o.name /\ d.rate = o.rate /\ d.duration = RoundTo(o.duration, 10)
    /\ (IF d.date.ty = "str" THEN d.date.s = o.date.s
        ELSE CanStrptime5(o.date.s) /\ d.date.dt = Strptime5(o.date.s))
    /\ d.psize = RoundTo(o.psize, 100) /\ d.density = RoundTo(o.density, 100)
    /\ d.shape = RoundTo(o.shape, 100)
    /\ d.vel = o.vel /\ StrWet(d) = StrWet(o)
    /\ d.decay = o.decay /\ d.resuspension = o.resuspension

\* a decoded grid d (with the default list dl) has the field values of the
\* grid o (with the default list odl)
SameGrid(o, odl, d, dl) ==
    /\ d.centerlat = o.centerlat /\ d.centerlon = o.centerlon
    /\ d.latdiff = o.latdiff /\ d.londiff = o.londiff
    /\ d.latspan = RoundTo(o.latspan, 10) /\ d.lonspan = RoundTo(o.lonspan, 10)
    /\ d.outdir = o.outdir /\ d.outfile = o.outfile /\ d.nlev = o.nlev
    /\ Levels(d, dl) = Levels(o, odl)
    /\ d.sample_start = o.sample_start /\ d.sample_stop = o.sample_stop
    /\ d.sampletype = o.sampletype /\ d.interval = o.interval

\* read() has just decoded, into a fresh object, the file that a default
\* write() made of the well-formed object src.c
RoundTripped == last.op = "read" /\ last.fresh /\ last.input = AsIs

\* C1 (as claimed): write() followed by read() into a fresh HycsControl
\* reproduces every field value - the start date with its month, the
\* locations, the met pairs, the species fields, the grid fields with each
\* grid's level list - and the decoded object can be written again.
C1_RoundTrip ==
    RoundTripped =>
        /\ last.exc = "none"
        /\ control.date = src.c.date
        /\ Len(control.locs) = Len(src.c.locs)
        /\ \A i \in 1..Len(src.c.locs) :
              i <= Len(control.locs) /\ control.locs[i].ty = "str"
                  => SameLoc(src.c.locs[i].l, control.locs[i].s)
        /\ control.metdirs = src.c.metdirs /\ control.metfiles = src.c.metfiles
        /\ Len(control.species) = Len(src.c.species)
        /\ \A i \in 1..Len(src.c.species) :
              i <= Len(control.species) => SameSpecies(src.c.species[i], control.species[i])
        /\ Len(control.concgrids) = Len(src.c.concgrids)
        /\ \A i \in 1..Len(src.c.concgrids) :
              i <= Len(control.concgrids)
                  => SameGrid(src.c.concgrids[i], src.dl, control.concgrids[i], defaultLevels)
        /\ Write(control, defaultLevels, FALSE, FALSE).exc = "none"

\* C2 (as claimed): after any sequence of add_*, readlocs and read calls,
\* write(adderr=False) emits a location count equal to len(locs), a met
\* file count equal to len(metfiles), both species counts equal to
\* len(species) and a grid count equal to len(concgrids).
C2_CountsAreLengths ==
    last.op = "write" /\ ~last.adderr /\ last.exc = "none" =>
        /\ CountOn(LocCountLine) = Len(control.locs)
        /\ CountOn(MetCountLine(control)) = Len(control.metfiles)
        /\ CountOn(SpCountLine(control)) = Len(control.species)
        /\ CountOn(GridCountLine(control)) = Len(control.concgrids)
        /\ CountOn(DepCountLine(control)) = Len(control.species)

\* the deposition fields of a species are those of its construction
DefaultDep(x) ==
    LET n == SpeciesInit(x.name)
    IN  /\ x.psize = n.psize /\ x.density = n.density /\ x.shape = n.shape
        /\ x.vel = n.vel /\ x.wetdepstr = n.wetdepstr /\ x.decay = n.decay
        /\ x.resuspension = n.resuspension

\* C3 (as claimed): read() of a file whose deposition count is smaller than
\* its emission species count, and which holds only that many deposition
\* blocks, does not fail, and the species at or beyond the deposition count
\* keep their default deposition parameters.
C3_PartialDeposition ==
    last.op = "read" /\ last.fresh /\ last.input.kind = "partialdep" =>
        /\ last.exc = "none"
        /\ \A i \in 1..Len(control.species) :
              i > last.input.i => DefaultDep(control.species[i])

\* C4 (as claimed): read() aborts only for a count line that is no integer
\* or an input with too few lines; a content field that fails to parse in
\* an otherwise complete file (a species rate or duration, a grid number)
\* never aborts it.  Stated for the lines after the start date.
C4_ContentFailuresAreSoft ==
    /\ last.op = "read" /\ last.input.kind = "junk"
    /\ last.input.i # 1 /\ last.input.i \notin CountLines(src.c)
    => last.exc = "none"

\* C5: two consecutive write() calls on the same object with the same
\* annotate and adderr options, and no other call in between, leave the
\* same lines in the file.
C5_WriteIdempotent ==
    [][(/\ last.op = "write" /\ last'.op = "write"
        /\ last'.annotate = last.annotate /\ last'.adderr = last.adderr)
       => file' = file]_vars

\* an annotated write() of an object with a species and a grid, repeated
C5_Witness ==
    /\ last.op = "write" /\ last.repeat /\ last.annotate /\ last.exc = "none"
    /\ Len(control.concgrids) >= 1 /\ Len(control.species) >= 1

\* C6 (as claimed): write(adderr=True) emits a location count that is one
\* more than the number of locations, one line per location in locs, and
\* everything else as write(adderr=False) does.
C6_AddErrOffByOne ==
    last.op = "write" /\ last.adderr /\ last.exc = "none" =>
        /\ CountOn(LocCountLine) = Len(control.locs) + 1
        /\ \A i \in 1..Len(control.locs) :
              Strip(file[LocCountLine + i]) =
                  StrSource(control.locs[i]) \o Note(last.annotate /\ i = 1, "#Lat Lon Altitude")
        /\ \A p \in 1..Len(file) :
              p # LocCountLine =>
                  file[p] = Write(control, defaultLevels, last.annotate, FALSE).out[p]

\* C7 (as claimed): __str__ emits lat, lon and alt, then a rate token if
\* and only if a rate is present, then an area token if and only if an area
\* is present; a rate or area set to 0 is present.
C7_TokensFollowPresence ==
    locPc \in {"str", "decoded"} =>
        locLine = <<Fmt2f(loc.latlon[1]), Fmt2f(loc.latlon[2]), Fmt1f(loc.alt)>>
                    \o (IF loc.rate.set THEN <<Fmt0f(loc.rate.v)>> ELSE <<>>)
                    \o (IF loc.area.set THEN <<Fmt2E(loc.area.v)>> ELSE <<>>)

\* C8 (as claimed): decoding the line __str__ made gives a location whose
\* rate is present exactly when it was present before, and whose area is
\* present exactly when it was present before; an absent field is never
\* decoded as the value of another field.
\* Stated for locations whose present fields are not zero.
C8_PresenceRoundTrip ==
    /\ locPc = "decoded"
    /\ (loc.rate.set => loc.rate.v # 0) /\ (loc.area.set => loc.area.v # 0)
    => /\ locDec.rate.set = loc.rate.set
       /\ locDec.area.set = loc.area.set

\* the level count and the number of level tokens of the decoded block
BlockN == IntLine(cgLines[6])
BlockK == Len(Split(cgLines[7]))

\* C9 (as claimed): for a ConcGrid built with defaults and handed a block
\* with level count n and k level tokens, definition returns success, nlev
\* is n and the level list has length exactly k.
C9_LevelListLength ==
    cgPc = "done" /\ (\E n \in 1..3, k \in 1..2 : cgLines = BaseBlock(n, k)) =>
        /\ cgRet = "True"
        /\ cgObj.nlev = BlockN
        /\ Len(Levels(cgObj, defaultLevels)) = BlockK

\* the date a date line stands for: the literal when it starts with "00",
\* else the timestamp, else the literal
DateOfLine(line) ==
    IF StartsWith00(line) THEN PyStr(Strip(line))
    ELSE IF CanStrptime5(line) THEN PyDate(Strptime5(line))
    ELSE PyStr(Strip(line))

\* C10 (as claimed): after Species.definition the stored date is the
\* literal trimmed date line when that starts with "00", otherwise the
\* parsed timestamp, or the literal trimmed line when parsing fails.
C10_DateDecoded ==
    spPc = "done" => spObj.date = DateOfLine(spLines[3])

\* What Species.definition does with the date: it decodes the date line as
\* above when the rate and duration lines are floats; when one of them is
\* not, it returns False and the date is the one the species had before.
C10_DateDecodedWhenReached ==
    spPc = "done" =>
        IF CanFloat(spLines[1]) /\ CanFloat(spLines[2])
        THEN spRet /\ spObj.date = DateOfLine(spLines[3])
        ELSE ~spRet /\ spObj.date = spBefore.date

\* the index in content (from 0) of the grid-count line of the file read
GridCountIndex == GridCountLine(src.c) - 1

\* the line at index i (from 0) of the file read
ContentAt(i) == Content(last.input)[i + 1]

\* read() has decoded every grid of the file it was given
AllGridsDecoded ==
    /\ RoundTripped /\ last.exc = "none"
    /\ Len(control.concgrids) = control.num_grids

\* C11 (as claimed): after the grid count N4 at index g, read() consumes
\* for each grid a name line and 10 body lines, the name line being neither
\* the grid-count line nor a body line of another grid, and reads the
\* deposition count at index g + 1 + 11*N4.
C11_ElevenLinesPerGrid ==
    RoundTripped =>
        /\ last.exc = "none"
        /\ control.num_grids = IntLine(ContentAt(GridCountIndex))
        /\ last.zz = GridCountIndex + 1 + 11 * control.num_grids
        /\ \A j \in 1..Len(control.concgrids) :
              control.concgrids[j].name # Strip(ContentAt(GridCountIndex))

\* C11 (amended): read() consumes 10 lines for each grid and no name line:
\* the name of grid j (from 0) is the line at index g + 10*j, which is the
\* grid-count line for the first grid and the last body line of the grid
\* before for the others, its body is the 10 lines after that, and the
\* deposition count is read at index g + 1 + 10*N4.
C11_TenLinesPerGrid ==
    RoundTripped =>
        /\ last.exc = "none"
        /\ control.num_grids = IntLine(ContentAt(GridCountIndex))
        /\ last.zz = GridCountIndex + 1 + 10 * control.num_grids
        /\ Len(control.concgrids) = control.num_grids =>
              \A j \in 1..Len(control.concgrids) :
                 LET at == GridCountIndex + 10 * (j - 1)
                 IN  /\ control.concgrids[j].name = Strip(ContentAt(at))
                     /\ control.concgrids[j].outdir = Strip(ContentAt(at + 4))
                     /\ control.concgrids[j].outfile = Strip(ContentAt(at + 5))
                     /\ control.concgrids[j].sample_stop = Strip(ContentAt(at + 9))

\* a file with two grids, both decoded
C11_Witness == AllGridsDecoded /\ control.num_grids = 2

\* the index in content (from 0) of the emission species count of the file
SpCountIndex == SpCountLine(src.c) - 1

\* the species at index k (from 1) of the list has had a deposition block
\* applied: define_dep stores the wet deposition line of the block
DepApplied(k) == control.species[k].wetdepstr # <<>>

\* C12 (as claimed): in every read that reaches the deposition step, the
\* k-th deposition block of the file is applied to the species decoded
\* from the k-th emission block of the file.  read() applies block k to
\* species[k]; stated for a read into a fresh object: a species that has
\* had a block applied carries the name of the emission block at its index.
C12_DepositionIndexAligned ==
    last.op = "read" /\ last.fresh =>
        \A k \in 1..Len(control.species) :
            DepApplied(k) =>
                control.species[k].name = Strip(ContentAt(SpCountIndex + 1 + 4 * (k - 1)))

\* the token at <<line, token>> of the block decoded is no number
JunkToken(p) == p[2] < Len(cgLines[p[1]]) /\ cgLines[p[1]][p[2]] = W("junk")

\* where the block holds the numeric fields of a grid, in decoding order
FieldAt ==
    [centerlat |-> <<1, 1>>, centerlon |-> <<1, 2>>, latdiff |-> <<2, 1>>,
     londiff |-> <<2, 2>>, latspan |-> <<3, 1>>, lonspan |-> <<3, 2>>,
     nlev |-> <<6, 1>>, sampletype |-> <<10, 1>>]

\* the token at q comes before the token at p in the block
Before(q, p) == q[1] < p[1] \/ (q[1] = p[1] /\ q[2] < p[2])

\* the value of the token at q: the sample type and the level count are
\* integers, the others floats
ParsedAt(q) ==
    IF q[1] \in {6, 10} THEN IntOf(cgLines[q[1]][q[2]]) ELSE FloatOf(cgLines[q[1]][q[2]])

\* a grid as ConcGrid(spname) builds it
BuiltGrid == ConcGridInit(<<>>, SharedLevels, -1, 0, <<>>)

HardAt == {<<1, 1>>, <<1, 2>>, <<2, 1>>, <<2, 2>>, <<3, 1>>, <<3, 2>>, <<6, 1>>}

Unannotated(c) ==
    [c EXCEPT !.concgrids = [j \in 1..Len(c.concgrids) |->
                                [c.concgrids[j] EXCEPT !.annotate = FALSE]]]

\* C14 (as claimed): for an object with at least one grid, write(annotate=
\* False) emits the same lines whether or not write(annotate=True) was
\* called on the object before: the lines are those of an object on whose
\* grids set_annotate() was never called.
C14_AnnotationDoesNotPersist ==
    /\ last.op = "write" /\ ~last.annotate /\ last.exc = "none"
    /\ Len(control.concgrids) >= 1
    => file = Write(Unannotated(control), defaultLevels, FALSE, last.adderr).out

\* the levels on the level line of block j (from 1) of the file read
BlockLevels(j) == LevelsOf(ContentAt(GridCountIndex + 10 * (j - 1) + 7))

\* C15 (as claimed): when read() decodes several grids, decoding a grid
\* leaves the level lists of the other decoded grids unchanged, and the
\* level list of each decoded grid holds the level tokens of its own block
\* and nothing else.  Stated for a file with two grids or more.
C15_LevelListsIndependent ==
    AllGridsDecoded /\ control.num_grids >= 2 =>
        \A j \in 1..Len(control.concgrids) :
            Levels(control.concgrids[j], defaultLevels) = BlockLevels(j)

=============================================================================
